---- MODULE Spec2Model ----
(***************************************************************************)
(* Model of the Pomodoro timer's core:                                     *)
(*   - SessionManager (src/components/SessionManager.js): the session      *)
(*     cycle controller;                                                   *)
(*   - Timer (src/components/Settings.js, lines 301-437): the countdown    *)
(*     engine;                                                             *)
(*   - PomodoroTimer (src/script.js): the monolithic orchestrator that     *)
(*     holds its own countdown and its own copy of the cycling logic;      *)
(*   - Settings (src/components/Settings.js, lines 5-289): the store of    *)
(*     the configuration, with its form, its validation and its entry in   *)
(*     localStorage.                                                       *)
(* Each object is one record-valued variable whose fields carry the names  *)
(* of the JavaScript fields.  The JavaScript runtime's timers (the active  *)
(* setInterval handles, the pending setTimeout callbacks) are variables of *)
(* their own, and so is what the observers of each object were told.       *)
(***************************************************************************)
EXTENDS Integers, Sequences, FiniteSets, TLC

VARIABLES
    sm,          \* the SessionManager object
    smRet,       \* what the last SessionManager call returned
    smHist,      \* history: last call, advances since a fresh initialisation
    tm,          \* the Timer object
    tmIntervals, \* runtime: ids of the Timer's active setInterval schedules
    tmEvents,    \* observer invocations (onTick / onComplete) of the last step
    tmHist,      \* history: last two calls and the seconds argument of the
                 \* last one, completions of this countdown
    app,         \* the PomodoroTimer object
    appIntervals,\* runtime: ids of the PomodoroTimer's active setInterval schedules
    appTimeouts, \* runtime: pending setTimeout(() => this.startTimer(), 1000)
    appHist,     \* history: how many pending timeouts predate a user action
    st,          \* the Settings object
    stStorage,   \* runtime: the 'pomodoroSettings' entry of localStorage
    stEvents,    \* what the last Settings call did outside the object: alert,
                 \* setItem, close, onSettingsChange, in the order it did them
    stHist       \* history: the last Settings call, its argument, what it returned

smVars == <<sm, smRet, smHist>>
tmVars == <<tm, tmIntervals, tmEvents, tmHist>>
appVars == <<app, appIntervals, appTimeouts, appHist>>
stVars == <<st, stStorage, stEvents, stHist>>
vars == <<sm, smRet, smHist, tm, tmIntervals, tmEvents, tmHist,
          app, appIntervals, appTimeouts, appHist,
          st, stStorage, stEvents, stHist>>

----------------------------------------------------------------------------
(* Bounds of the model *)

\* sessionCount / completedPomodoros are not advanced beyond this
MaxCount == 8
\* largest seconds argument given to Timer.setDuration / Timer.reset
MaxSeconds == 3
\* the Timer's currentTime is not decremented below -MaxBelowZero
MaxBelowZero == 2
\* number of setInterval schedules the runtime may hold at once
MaxIntervals == 2
\* the PomodoroTimer's sessionCount is not advanced beyond this
MaxAppCount == 3
\* number of auto-start timeouts the runtime may hold pending at once
MaxTimeouts == 2

----------------------------------------------------------------------------
(* JavaScript values *)

\* a numeric field that is missing (undefined) or 0 is the number 0 here: every
\* read of such a field in SessionManager goes through `x || default`, which
\* treats undefined and 0 alike.
OrDefault(x, d) == IF x = 0 THEN d ELSE x

WORK == "work"
SHORT_BREAK == "shortBreak"
LONG_BREAK == "longBreak"
sessionTypes == {WORK, SHORT_BREAK, LONG_BREAK}

\* the value a call returns when it returns nothing
NoReturn == [none |-> TRUE]

----------------------------------------------------------------------------
(* SessionManager *)

\* settings objects handed to the constructor, initialize() and (in parts) to
\* updateSettings(); 0 stands for a missing or zero value
SMConfigs ==
    [workDuration : {0, 25},
     shortBreakDuration : {5},
     longBreakDuration : {15},
     sessionsUntilLongBreak : {0, 2, 3, 4},
     autoStartBreaks : BOOLEAN,
     autoStartPomodoros : BOOLEAN]

SMPartials ==
    {[sessionsUntilLongBreak |-> n] : n \in {2, 3}}
        \cup {[autoStartBreaks |-> b] : b \in BOOLEAN}
        \cup {[workDuration |-> 1, longBreakDuration |-> 30]}

\* { ...a, ...b }
Merge(a, b) ==
    [k \in (DOMAIN a) \cup (DOMAIN b) |-> IF k \in DOMAIN b THEN b[k] ELSE a[k]]

SMConstructor(settings) ==
    [settings |-> settings,
     currentSession |-> WORK,
     sessionCount |-> 0,
     completedPomodoros |-> 0]

\* mutation: resetToDefaults() that leaves the session type
resetToDefaults_CountersOnly(self) ==
    [self EXCEPT !.sessionCount = 0,
                 !.completedPomodoros = 0]

resetToDefaults(self) ==
    [self EXCEPT !.currentSession = WORK,
                 !.sessionCount = 0,
                 !.completedPomodoros = 0]

initialize(self, settings) ==
    resetToDefaults([self EXCEPT !.settings = settings])

\* mutation: the durations taken as configured, without their `|| default`
getSessionDuration_NoDefaults(self, sessionType) ==
    LET durations ==
            [t \in sessionTypes |->
                CASE t = WORK -> self.settings.workDuration * 60
                  [] t = SHORT_BREAK -> self.settings.shortBreakDuration * 60
                  [] t = LONG_BREAK -> self.settings.longBreakDuration * 60]
    IN  IF sessionType \in sessionTypes /\ durations[sessionType] # 0
        THEN durations[sessionType]
        ELSE durations[WORK]

\* mutation: the long break timed by shortBreakDuration
getSessionDuration_ShortLongBreak(self, sessionType) ==
    LET durations ==
            [t \in sessionTypes |->
                CASE t = WORK -> OrDefault(self.settings.workDuration, 25) * 60
                  [] t = SHORT_BREAK -> OrDefault(self.settings.shortBreakDuration, 5) * 60
                  [] t = LONG_BREAK -> OrDefault(self.settings.shortBreakDuration, 5) * 60]
    IN  IF sessionType \in sessionTypes /\ durations[sessionType] # 0
        THEN durations[sessionType]
        ELSE durations[WORK]

getSessionDuration(self, sessionType) ==
    LET durations ==
            [t \in sessionTypes |->
                CASE t = WORK -> OrDefault(self.settings.workDuration, 25) * 60
                  [] t = SHORT_BREAK -> OrDefault(self.settings.shortBreakDuration, 5) * 60
                  [] t = LONG_BREAK -> OrDefault(self.settings.longBreakDuration, 15) * 60]
    IN  IF sessionType \in sessionTypes /\ durations[sessionType] # 0
        THEN durations[sessionType]
        ELSE durations[WORK]

getCurrentSessionDuration(self) == getSessionDuration(self, self.currentSession)

\* mutation: the two flags exchanged
shouldAutoStart_Exchanged(self) ==
    LET isBreakSession == self.currentSession # WORK
        isWorkSession == self.currentSession = WORK
    IN  (isBreakSession /\ self.settings.autoStartPomodoros)
            \/ (isWorkSession /\ self.settings.autoStartBreaks)

shouldAutoStart(self) ==
    LET isBreakSession == self.currentSession # WORK
        isWorkSession == self.currentSession = WORK
    IN  (isBreakSession /\ self.settings.autoStartBreaks)
            \/ (isWorkSession /\ self.settings.autoStartPomodoros)

\* mutation: the test made on the count before the increment
completeSession_LongBreakDue_Stale(self, count) ==
    (count - 1) % OrDefault(self.settings.sessionsUntilLongBreak, 4) = 0

\* mutation: a long break as soon as the cycle length is reached, and ever after
completeSession_LongBreakDue_AtLeast(self, count) ==
    count >= OrDefault(self.settings.sessionsUntilLongBreak, 4)

\* mutation: the long break due at every second completion, whatever the
\* configured cycle length
completeSession_LongBreakDue_Pairs(self, count) ==
    count % 2 = 0

\* the long-break test of completeSession, on the incremented sessionCount
completeSession_LongBreakDue(self, count) ==
    count % OrDefault(self.settings.sessionsUntilLongBreak, 4) = 0

\* mutation: a break completion counted like a work completion
completeSession_Counted_Always(self) == TRUE

\* whether completeSession takes its counting branch
completeSession_Counted(self) == self.currentSession = WORK

\* completeSession(): the object afterwards and the sessionInfo it returns
completeSession(self) ==
    LET previousSession == self.currentSession
        counted == completeSession_Counted(self)
        completedPomodoros ==
            IF counted THEN self.completedPomodoros + 1 ELSE self.completedPomodoros
        sessionCount ==
            IF counted THEN self.sessionCount + 1 ELSE self.sessionCount
        nextSession ==
            IF counted
            THEN IF completeSession_LongBreakDue(self, sessionCount)
                 THEN LONG_BREAK
                 ELSE SHORT_BREAK
            ELSE WORK
        after ==
            [self EXCEPT !.currentSession = nextSession,
                         !.sessionCount = sessionCount,
                         !.completedPomodoros = completedPomodoros]
    IN  [self |-> after,
         ret |-> [previousSession |-> previousSession,
                  currentSession |-> after.currentSession,
                  completedPomodoros |-> after.completedPomodoros,
                  sessionCount |-> after.sessionCount,
                  duration |-> getCurrentSessionDuration(after),
                  shouldAutoStart |-> shouldAutoStart(after)]]

skipSession(self) == completeSession(self)

\* mutation: resetCounters() that returns to work as well
resetCounters_AndSession(self) ==
    [self EXCEPT !.currentSession = WORK,
                 !.sessionCount = 0,
                 !.completedPomodoros = 0]

\* mutation: resetCounters() that forgets completedPomodoros
resetCounters_SessionCountOnly(self) ==
    [self EXCEPT !.sessionCount = 0]

resetCounters(self) ==
    [self EXCEPT !.sessionCount = 0, !.completedPomodoros = 0]

\* mutation: the spread in the other order, { ...newSettings, ...this.settings }
updateSettings_OldWins(self, newSettings) ==
    [self EXCEPT !.settings = Merge(newSettings, self.settings)]

updateSettings(self, newSettings) ==
    [self EXCEPT !.settings = Merge(self.settings, newSettings)]

\* the values setCurrentSession() is called with: the three session types and
\* one that is none of them
SessionTypeArgs == sessionTypes \cup {"nap"}

\* mutation: setCurrentSession() without its test against sessionTypes
setCurrentSession_Unchecked(self, sessionType) ==
    [self |-> [self EXCEPT !.currentSession = sessionType],
     ret |-> TRUE,
     onSessionChange |-> TRUE]

\* setCurrentSession(sessionType): the object afterwards, the value returned,
\* and whether the onSessionChange observer was called
setCurrentSession(self, sessionType) ==
    IF sessionType \in sessionTypes
    THEN [self |-> [self EXCEPT !.currentSession = sessionType],
          ret |-> TRUE,
          onSessionChange |-> TRUE]
    ELSE [self |-> self, ret |-> FALSE, onSessionChange |-> FALSE]

\* the snapshots importState() is called with: whole ones as exportState()
\* makes them, ones with an unrecognized or empty session type, ones with
\* fields missing
Snapshots ==
    [currentSession : sessionTypes \cup {"nap", ""},
     sessionCount : {0, 3},
     completedPomodoros : {0, 5}]
        \cup {[currentSession |-> LONG_BREAK],
              [sessionCount |-> 4],
              [completedPomodoros |-> 2, sessionCount |-> 2]}

exportState(self) ==
    [currentSession |-> self.currentSession,
     sessionCount |-> self.sessionCount,
     completedPomodoros |-> self.completedPomodoros]

\* mutation: the two counters read from each other's field
importState_CountsCrossed(self, state) ==
    [self EXCEPT
        !.currentSession =
            IF "currentSession" \in DOMAIN state /\ state.currentSession # ""
            THEN state.currentSession
            ELSE WORK,
        !.sessionCount =
            IF "completedPomodoros" \in DOMAIN state
            THEN OrDefault(state.completedPomodoros, 0)
            ELSE 0,
        !.completedPomodoros =
            IF "sessionCount" \in DOMAIN state
            THEN OrDefault(state.sessionCount, 0)
            ELSE 0]

\* mutation: a field missing from the snapshot keeps its value
importState_KeepsMissing(self, state) ==
    [self EXCEPT
        !.currentSession =
            IF "currentSession" \in DOMAIN state /\ state.currentSession # ""
            THEN state.currentSession
            ELSE @,
        !.sessionCount =
            IF "sessionCount" \in DOMAIN state THEN state.sessionCount ELSE @,
        !.completedPomodoros =
            IF "completedPomodoros" \in DOMAIN state
            THEN state.completedPomodoros
            ELSE @]

\* importState(state) for a state that is not null
importState(self, state) ==
    [self EXCEPT
        !.currentSession =
            IF "currentSession" \in DOMAIN state /\ state.currentSession # ""
            THEN state.currentSession
            ELSE WORK,
        !.sessionCount =
            IF "sessionCount" \in DOMAIN state
            THEN OrDefault(state.sessionCount, 0)
            ELSE 0,
        !.completedPomodoros =
            IF "completedPomodoros" \in DOMAIN state
            THEN OrDefault(state.completedPomodoros, 0)
            ELSE 0]

\* history kept beside the object: the last call, and the number of
\* completeSession calls since a fresh initialisation (fresh until a reset, a
\* configuration change or another direct write of the session state)
\* mutation: the look-ahead made by incrementing this.sessionCount in place
getNextSessionType_Counting(self) ==
    LET counted == IF self.currentSession = WORK
                   THEN [self EXCEPT !.sessionCount = @ + 1]
                   ELSE self
    IN  [self |-> counted,
         ret |-> IF self.currentSession = WORK
                 THEN IF counted.sessionCount
                            % OrDefault(self.settings.sessionsUntilLongBreak, 4) = 0
                      THEN LONG_BREAK
                      ELSE SHORT_BREAK
                 ELSE WORK]

\* mutation: the look-ahead made on this.sessionCount as it is, not on the
\* count the completion will make
getNextSessionType_NoLookahead(self) ==
    [self |-> self,
     ret |-> IF self.currentSession = WORK
             THEN IF self.sessionCount
                        % OrDefault(self.settings.sessionsUntilLongBreak, 4) = 0
                  THEN LONG_BREAK
                  ELSE SHORT_BREAK
             ELSE WORK]

getNextSessionType(self) ==
    [self |-> self,
     ret |-> IF self.currentSession = WORK
             THEN LET sessionsUntilLongBreak ==
                          OrDefault(self.settings.sessionsUntilLongBreak, 4)
                      nextSessionCount == self.sessionCount + 1
                  IN  IF nextSessionCount % sessionsUntilLongBreak = 0
                      THEN LONG_BREAK
                      ELSE SHORT_BREAK
             ELSE WORK]

\* mutation: the distance to the long break reported as computed, a whole
\* cycle at a boundary
getStatistics_Unnormalised(self) ==
    LET sessionsUntilLongBreak == OrDefault(self.settings.sessionsUntilLongBreak, 4)
        sessionsUntilNextLongBreak ==
            sessionsUntilLongBreak - (self.sessionCount % sessionsUntilLongBreak)
    IN  [self |-> self,
         ret |-> [completedPomodoros |-> self.completedPomodoros,
                  totalSessions |-> self.sessionCount,
                  sessionsUntilLongBreak |-> sessionsUntilNextLongBreak,
                  currentCycle |-> (self.sessionCount \div sessionsUntilLongBreak) + 1,
                  currentSessionInCycle |->
                      (self.sessionCount % sessionsUntilLongBreak) + 1]]

\* mutation: getStatistics() that counts the pomodoro in progress as done
getStatistics_CountsCurrent(self) ==
    LET sessionsUntilLongBreak == OrDefault(self.settings.sessionsUntilLongBreak, 4)
        sessionsUntilNextLongBreak ==
            sessionsUntilLongBreak - ((self.sessionCount + 1) % sessionsUntilLongBreak)
    IN  [self |-> self,
         ret |-> [completedPomodoros |-> self.completedPomodoros,
                  totalSessions |-> self.sessionCount,
                  sessionsUntilLongBreak |->
                      IF sessionsUntilNextLongBreak = sessionsUntilLongBreak
                      THEN 0
                      ELSE sessionsUntilNextLongBreak,
                  currentCycle |-> (self.sessionCount \div sessionsUntilLongBreak) + 1,
                  currentSessionInCycle |->
                      (self.sessionCount % sessionsUntilLongBreak) + 1]]

getStatistics(self) ==
    LET sessionsUntilLongBreak == OrDefault(self.settings.sessionsUntilLongBreak, 4)
        sessionsUntilNextLongBreak ==
            sessionsUntilLongBreak - (self.sessionCount % sessionsUntilLongBreak)
    IN  [self |-> self,
         ret |-> [completedPomodoros |-> self.completedPomodoros,
                  totalSessions |-> self.sessionCount,
                  sessionsUntilLongBreak |->
                      IF sessionsUntilNextLongBreak = sessionsUntilLongBreak
                      THEN 0
                      ELSE sessionsUntilNextLongBreak,
                  currentCycle |-> (self.sessionCount \div sessionsUntilLongBreak) + 1,
                  currentSessionInCycle |->
                      (self.sessionCount % sessionsUntilLongBreak) + 1]]

SMFresh == [op |-> "new", fresh |-> TRUE, advances |-> 0]
SMStale(op) == [op |-> op, fresh |-> FALSE, advances |-> 0]
\* the history after a call op that writes no field of the session state
SMRead(op) == [op |-> op, fresh |-> smHist.fresh, advances |-> smHist.advances]

Initialize ==
    /\ \E settings \in SMConfigs : sm' = initialize(sm, settings)
    /\ smRet' = NoReturn
    /\ smHist' = [SMFresh EXCEPT !.op = "initialize"]
    /\ UNCHANGED <<tmVars, appVars, stVars>>

ResetToDefaults ==
    /\ sm' = resetToDefaults(sm)
    /\ smRet' = NoReturn
    /\ smHist' = SMStale("resetToDefaults")
    /\ UNCHANGED <<tmVars, appVars, stVars>>

SMAdvance(op, r) ==
    /\ r.self.sessionCount <= MaxCount
    /\ r.self.completedPomodoros <= MaxCount
    /\ sm' = r.self
    /\ smRet' = r.ret
    /\ smHist' = [SMRead(op) EXCEPT !.advances = IF smHist.fresh THEN @ + 1 ELSE @]
    /\ UNCHANGED <<tmVars, appVars, stVars>>

CompleteSession == SMAdvance("completeSession", completeSession(sm))

SkipSession == SMAdvance("skipSession", skipSession(sm))

ResetCounters ==
    /\ sm' = resetCounters(sm)
    /\ smRet' = NoReturn
    /\ smHist' = SMStale("resetCounters")
    /\ UNCHANGED <<tmVars, appVars, stVars>>

\* updateSettings(newSettings); the history keeps the argument
UpdateSettings ==
    /\ \E newSettings \in SMPartials :
           /\ sm' = updateSettings(sm, newSettings)
           /\ smHist' = [op |-> "updateSettings",
                         fresh |-> FALSE,
                         advances |-> 0,
                         newSettings |-> newSettings]
    /\ smRet' = NoReturn
    /\ UNCHANGED <<tmVars, appVars, stVars>>

\* setCurrentSession(sessionType); the history keeps the argument
SetCurrentSession ==
    /\ \E sessionType \in SessionTypeArgs :
           LET r == setCurrentSession(sm, sessionType)
           IN  /\ sm' = r.self
               /\ smRet' = [returned |-> r.ret, onSessionChange |-> r.onSessionChange]
               /\ smHist' = [op |-> "setCurrentSession",
                             fresh |-> FALSE,
                             advances |-> 0,
                             sessionType |-> sessionType]
    /\ UNCHANGED <<tmVars, appVars, stVars>>

\* importState(state), state one of the snapshots or the object's own export
ImportState ==
    /\ \E state \in Snapshots \cup {exportState(sm)} : sm' = importState(sm, state)
    /\ smRet' = NoReturn
    /\ smHist' = SMStale("importState")
    /\ UNCHANGED <<tmVars, appVars, stVars>>

\* importState(null)
ImportNull ==
    /\ sm' = sm
    /\ smRet' = NoReturn
    /\ smHist' = SMRead("importState")
    /\ UNCHANGED <<tmVars, appVars, stVars>>

GetNextSessionType ==
    /\ LET r == getNextSessionType(sm)
       IN  /\ r.self.sessionCount <= MaxCount
           /\ sm' = r.self
           /\ smRet' = [nextSessionType |-> r.ret]
    /\ smHist' = SMRead("getNextSessionType")
    /\ UNCHANGED <<tmVars, appVars, stVars>>

\* getSessionDuration(sessionType); the history keeps the argument
GetSessionDuration ==
    /\ \E sessionType \in SessionTypeArgs :
           /\ smRet' = [duration |-> getSessionDuration(sm, sessionType)]
           /\ smHist' = [op |-> "getSessionDuration",
                         fresh |-> smHist.fresh,
                         advances |-> smHist.advances,
                         sessionType |-> sessionType]
    /\ sm' = sm
    /\ UNCHANGED <<tmVars, appVars, stVars>>

GetStatistics ==
    /\ LET r == getStatistics(sm)
       IN  /\ sm' = r.self
           /\ smRet' = [statistics |-> r.ret]
    /\ smHist' = SMRead("getStatistics")
    /\ UNCHANGED <<tmVars, appVars, stVars>>

SMNext ==
    \/ Initialize
    \/ ResetToDefaults
    \/ CompleteSession
    \/ SkipSession
    \/ ResetCounters
    \/ UpdateSettings
    \/ SetCurrentSession
    \/ ImportState
    \/ ImportNull
    \/ GetNextSessionType
    \/ GetStatistics

\* Settings.validateSettings: the ranges of a valid configuration
validateSettings(settings) ==
    /\ settings.workDuration > 0 /\ settings.workDuration <= 60
    /\ settings.shortBreakDuration > 0 /\ settings.shortBreakDuration <= 30
    /\ settings.longBreakDuration > 0 /\ settings.longBreakDuration <= 60
    /\ settings.sessionsUntilLongBreak >= 2 /\ settings.sessionsUntilLongBreak <= 10

----------------------------------------------------------------------------
(* Timer *)

\* the runtime's setInterval / clearInterval on the set of active schedules;
\* an id is free for reuse once its schedule is cleared (the only handle kept,
\* this.timer, is overwritten by every setInterval)
setInterval(intervals) ==
    CHOOSE id \in 1..(Cardinality(intervals) + 1) : id \notin intervals
clearInterval(intervals, id) == intervals \ {id}

\* the Timer object together with the runtime state its methods act on:
\* self, the active interval schedules, the observer invocations made so far
TimerWorld(self, intervals) ==
    [self |-> self, intervals |-> intervals, events |-> <<>>]

TimerConstructor ==
    [currentTime |-> 0, isRunning |-> FALSE, isPaused |-> FALSE, timer |-> 0]

\* an invocation of onTick (kind "tick", with the currentTime passed) or of
\* onComplete (kind "complete"), and the Timer as the observer finds it
TimerEvent(kind, w) ==
    [kind |-> kind,
     currentTime |-> w.self.currentTime,
     isRunning |-> w.self.isRunning,
     isPaused |-> w.self.isPaused,
     intervals |-> w.intervals]

\* mutation: setDuration() without its `if (!this.isRunning)`
Timer_setDuration_Unguarded(w, seconds) ==
    [w EXCEPT !.self.currentTime = seconds]

Timer_setDuration(w, seconds) ==
    IF ~w.self.isRunning
    THEN [w EXCEPT !.self.currentTime = seconds]
    ELSE w

\* mutation: start() without its `if (this.isRunning) return`
Timer_start_Unguarded(w) ==
    LET id == setInterval(w.intervals)
    IN  [w EXCEPT !.self.isRunning = TRUE,
                  !.self.isPaused = FALSE,
                  !.self.timer = id,
                  !.intervals = @ \cup {id}]

\* mutation: start() without its `this.isPaused = false`
Timer_start_KeepsPaused(w) ==
    IF w.self.isRunning
    THEN w
    ELSE LET id == setInterval(w.intervals)
         IN  [w EXCEPT !.self.isRunning = TRUE,
                       !.self.timer = id,
                       !.intervals = @ \cup {id}]

Timer_start(w) ==
    IF w.self.isRunning
    THEN w
    ELSE LET id == setInterval(w.intervals)
         IN  [w EXCEPT !.self.isRunning = TRUE,
                       !.self.isPaused = FALSE,
                       !.self.timer = id,
                       !.intervals = @ \cup {id}]

\* mutation: pause() without its `if (!this.isRunning) return`
Timer_pause_Unguarded(w) ==
    [w EXCEPT !.self.isRunning = FALSE,
              !.self.isPaused = TRUE,
              !.intervals = clearInterval(@, w.self.timer)]

Timer_pause(w) ==
    IF ~w.self.isRunning
    THEN w
    ELSE [w EXCEPT !.self.isRunning = FALSE,
                   !.self.isPaused = TRUE,
                   !.intervals = clearInterval(@, w.self.timer)]

\* mutation: stop() that forgets clearInterval
Timer_stop_KeepsInterval(w) ==
    [w EXCEPT !.self.isRunning = FALSE,
              !.self.isPaused = FALSE]

\* mutation: stop() that also rewinds the countdown
Timer_stop_Rewinds(w) ==
    [w EXCEPT !.self.isRunning = FALSE,
              !.self.isPaused = FALSE,
              !.self.currentTime = 0,
              !.intervals = clearInterval(@, w.self.timer)]

Timer_stop(w) ==
    [w EXCEPT !.self.isRunning = FALSE,
              !.self.isPaused = FALSE,
              !.intervals = clearInterval(@, w.self.timer)]

\* mutation: reset() without its `this.stop()`
Timer_reset_NoStop(w, seconds) ==
    [w EXCEPT !.self.currentTime = seconds,
              !.self.isPaused = FALSE]

Timer_reset(w, seconds) ==
    LET stopped == Timer_stop(w)
    IN  [stopped EXCEPT !.self.currentTime = seconds,
                        !.self.isPaused = FALSE]

\* mutation: complete() that calls onComplete before stop()
Timer_complete_NotifiesFirst(w) ==
    Timer_stop([w EXCEPT !.events = Append(@, TimerEvent("complete", w))])

Timer_complete(w) ==
    LET stopped == Timer_stop(w)
    IN  [stopped EXCEPT !.events = Append(@, TimerEvent("complete", stopped))]

\* mutation: toggle() with its branches exchanged
Timer_toggle_Exchanged(w) ==
    IF w.self.isRunning THEN Timer_start(w) ELSE Timer_pause(w)

Timer_toggle(w) ==
    IF w.self.isRunning THEN Timer_pause(w) ELSE Timer_start(w)

\* the setInterval callback of start()
\* mutation: an interval callback that completes only below zero
Timer_tick_Late(w) ==
    LET decremented == [w EXCEPT !.self.currentTime = @ - 1]
        told == [decremented EXCEPT !.events = Append(@, TimerEvent("tick", decremented))]
    IN  IF told.self.currentTime < 0
        THEN Timer_complete(told)
        ELSE told

Timer_tick(w) ==
    LET decremented == [w EXCEPT !.self.currentTime = @ - 1]
        told == [decremented EXCEPT !.events = Append(@, TimerEvent("tick", decremented))]
    IN  IF told.self.currentTime <= 0
        THEN Timer_complete(told)
        ELSE told

\* the number of onComplete invocations among events
Completions(events) ==
    Cardinality({i \in DOMAIN events : events[i].kind = "complete"})

TMFresh == [op |-> "new", prevOp |-> "new", seconds |-> -1, completions |-> 0]

\* one call op(seconds) with outcome w; completions counts the onComplete
\* invocations since the countdown was last started
TMCallWith(op, seconds, w) ==
    /\ Cardinality(w.intervals) <= MaxIntervals
    /\ tm' = w.self
    /\ tmIntervals' = w.intervals
    /\ tmEvents' = w.events
    /\ tmHist' = [op |-> op,
                  prevOp |-> tmHist.op,
                  seconds |-> seconds,
                  completions |->
                      IF op \in {"start", "toggle"} /\ ~tm.isRunning /\ w.self.isRunning
                      THEN 0
                      ELSE tmHist.completions + Completions(w.events)]
    /\ UNCHANGED <<smVars, appVars, stVars>>

\* one call op() that takes no argument
TMCall(op, w) == TMCallWith(op, -1, w)

SetDuration ==
    \E seconds \in 0..MaxSeconds :
        TMCallWith("setDuration", seconds,
                   Timer_setDuration(TimerWorld(tm, tmIntervals), seconds))

Start == TMCall("start", Timer_start(TimerWorld(tm, tmIntervals)))

Pause == TMCall("pause", Timer_pause(TimerWorld(tm, tmIntervals)))

Reset ==
    \E seconds \in 0..MaxSeconds :
        TMCallWith("reset", seconds, Timer_reset(TimerWorld(tm, tmIntervals), seconds))

Stop == TMCall("stop", Timer_stop(TimerWorld(tm, tmIntervals)))

Toggle == TMCall("toggle", Timer_toggle(TimerWorld(tm, tmIntervals)))

\* one of the active interval schedules fires
Tick ==
    /\ tmIntervals # {}
    /\ tm.currentTime > -MaxBelowZero
    /\ TMCall("tick", Timer_tick(TimerWorld(tm, tmIntervals)))

TMNext ==
    \/ SetDuration
    \/ Start
    \/ Pause
    \/ Reset
    \/ Stop
    \/ Toggle
    \/ Tick

----------------------------------------------------------------------------
(* PomodoroTimer *)

\* the settings the constructor starts from (the flags that only gate sounds
\* and notifications are left out)
defaultSettings ==
    [workDuration |-> 25,
     shortBreakDuration |-> 5,
     longBreakDuration |-> 15,
     sessionsUntilLongBreak |-> 4,
     autoStartBreaks |-> FALSE,
     autoStartPomodoros |-> FALSE]

\* the settings the form or the saved 'pomodoroSettings' entry may hold: short
\* durations, so that a countdown runs to its end within the model
AppConfigs ==
    [workDuration : {1},
     shortBreakDuration : {1},
     longBreakDuration : {2},
     sessionsUntilLongBreak : {2},
     autoStartBreaks : BOOLEAN,
     autoStartPomodoros : BOOLEAN]
        \cup {[workDuration |-> 2,
               shortBreakDuration |-> 1,
               longBreakDuration |-> 1,
               sessionsUntilLongBreak |-> 3,
               autoStartBreaks |-> TRUE,
               autoStartPomodoros |-> FALSE]}

\* the PomodoroTimer object together with the runtime state its methods act
\* on: self, the active interval schedules, the pending auto-start timeouts
AppWorld(self, intervals, timeouts) ==
    [self |-> self, intervals |-> intervals, timeouts |-> timeouts]

\* mutation: getSessionDuration() that answers in minutes
PomodoroTimer_getSessionDuration_Minutes(self, sessionType) ==
    CASE sessionType = WORK -> self.settings.workDuration
      [] sessionType = SHORT_BREAK -> self.settings.shortBreakDuration
      [] sessionType = LONG_BREAK -> self.settings.longBreakDuration
      [] OTHER -> self.settings.workDuration

PomodoroTimer_getSessionDuration(self, sessionType) ==
    CASE sessionType = WORK -> self.settings.workDuration * 60
      [] sessionType = SHORT_BREAK -> self.settings.shortBreakDuration * 60
      [] sessionType = LONG_BREAK -> self.settings.longBreakDuration * 60
      [] OTHER -> self.settings.workDuration * 60

PomodoroTimerConstructor ==
    LET settings == defaultSettings
    IN  [settings |-> settings,
         currentTime |-> settings.workDuration * 60,
         isRunning |-> FALSE,
         isPaused |-> FALSE,
         currentSession |-> WORK,
         sessionCount |-> 0,
         completedPomodoros |-> 0,
         timer |-> 0]

\* new PomodoroTimer() followed by init(), with `saved` in localStorage
PomodoroTimerInit(saved) ==
    LET loaded == [PomodoroTimerConstructor EXCEPT !.settings = Merge(@, saved)]
    IN  [loaded EXCEPT !.currentTime =
                           PomodoroTimer_getSessionDuration(loaded, loaded.currentSession)]

PomodoroTimer_startTimer(w) ==
    LET id == setInterval(w.intervals)
    IN  [w EXCEPT !.self.isRunning = TRUE,
                  !.self.isPaused = FALSE,
                  !.self.timer = id,
                  !.intervals = @ \cup {id}]

PomodoroTimer_pauseTimer(w) ==
    [w EXCEPT !.self.isRunning = FALSE,
              !.self.isPaused = TRUE,
              !.intervals = clearInterval(@, w.self.timer)]

PomodoroTimer_toggleTimer(w) ==
    IF w.self.isRunning
    THEN PomodoroTimer_pauseTimer(w)
    ELSE PomodoroTimer_startTimer(w)

PomodoroTimer_resetTimer(w) ==
    [w EXCEPT !.self.isRunning = FALSE,
              !.self.isPaused = FALSE,
              !.intervals = clearInterval(@, w.self.timer),
              !.self.currentTime =
                  PomodoroTimer_getSessionDuration(w.self, w.self.currentSession)]

PomodoroTimer_completeSession(w) ==
    LET paused == PomodoroTimer_pauseTimer(w)
        self == paused.self
        counted == self.currentSession = WORK
        completedPomodoros ==
            IF counted THEN self.completedPomodoros + 1 ELSE self.completedPomodoros
        sessionCount ==
            IF counted THEN self.sessionCount + 1 ELSE self.sessionCount
        currentSession ==
            IF counted
            THEN IF sessionCount % self.settings.sessionsUntilLongBreak = 0
                 THEN LONG_BREAK
                 ELSE SHORT_BREAK
            ELSE WORK
        next ==
            [self EXCEPT !.completedPomodoros = completedPomodoros,
                         !.sessionCount = sessionCount,
                         !.currentSession = currentSession]
        timed ==
            [next EXCEPT !.currentTime =
                             PomodoroTimer_getSessionDuration(next, next.currentSession)]
        autoStart ==
            \/ (timed.currentSession # WORK /\ timed.settings.autoStartBreaks)
            \/ (timed.currentSession = WORK /\ timed.settings.autoStartPomodoros)
    IN  [paused EXCEPT !.self = timed,
                       !.timeouts = IF autoStart THEN @ + 1 ELSE @]

\* mutation: a skip that moves on without counting the skipped pomodoro
PomodoroTimer_skipSession_Uncounted(w) ==
    LET skipped == PomodoroTimer_completeSession(PomodoroTimer_pauseTimer(w))
    IN  [skipped EXCEPT !.self.completedPomodoros = w.self.completedPomodoros]

PomodoroTimer_skipSession(w) ==
    PomodoroTimer_completeSession(PomodoroTimer_pauseTimer(w))

\* the setInterval callback of startTimer()
PomodoroTimer_tick(w) ==
    LET decremented == [w EXCEPT !.self.currentTime = @ - 1]
    IN  IF decremented.self.currentTime <= 0
        THEN PomodoroTimer_completeSession(decremented)
        ELSE decremented

\* mutation: updateSettings() without its `if (!this.isRunning)`
PomodoroTimer_updateSettings_Always(w, newSettings) ==
    LET merged == [w EXCEPT !.self.settings = Merge(@, newSettings)]
    IN  [merged EXCEPT !.self.currentTime =
             PomodoroTimer_getSessionDuration(merged.self, merged.self.currentSession)]

PomodoroTimer_updateSettings(w, newSettings) ==
    LET merged == [w EXCEPT !.self.settings = Merge(@, newSettings)]
    IN  IF ~merged.self.isRunning
        THEN [merged EXCEPT !.self.currentTime =
                 PomodoroTimer_getSessionDuration(merged.self, merged.self.currentSession)]
        ELSE merged

PomodoroTimer_saveSettings(w, newSettings) ==
    PomodoroTimer_updateSettings(w, newSettings)

\* history kept beside the object: stale is the number of pending auto-start
\* timeouts that were scheduled before the user's last toggle, reset or skip
\* (timeouts of one delay fire in the order they were scheduled); op is the
\* last handler or callback that ran; deferred tells whether the latest
\* session transition scheduled an auto-start ("on") or not ("off"), and is
\* "none" before the first transition and once the user has acted or a
\* timeout has fired since
AppFresh == [stale |-> 0, op |-> "new", deferred |-> "none"]

AppStep(op, w, stale) ==
    /\ Cardinality(w.intervals) <= MaxIntervals
    /\ w.timeouts <= MaxTimeouts
    /\ w.self.sessionCount <= MaxAppCount
    /\ app' = w.self
    /\ appIntervals' = w.intervals
    /\ appTimeouts' = w.timeouts
    /\ appHist' = [stale |-> stale,
                   op |-> op,
                   deferred |->
                       IF w.self.currentSession # app.currentSession
                       THEN IF w.timeouts > appTimeouts THEN "on" ELSE "off"
                       ELSE IF op = "tick" THEN appHist.deferred ELSE "none"]
    /\ UNCHANGED <<smVars, tmVars, stVars>>

\* the play/pause button or the space key
AppToggleTimer ==
    AppStep("toggleTimer",
            PomodoroTimer_toggleTimer(AppWorld(app, appIntervals, appTimeouts)),
            appTimeouts)

\* the reset button or Ctrl+R
AppResetTimer ==
    AppStep("resetTimer",
            PomodoroTimer_resetTimer(AppWorld(app, appIntervals, appTimeouts)),
            appTimeouts)

\* the skip button or Ctrl+S
AppSkipSession ==
    AppStep("skipSession",
            PomodoroTimer_skipSession(AppWorld(app, appIntervals, appTimeouts)),
            appTimeouts)

\* the save button of the settings form
AppSaveSettings ==
    \E newSettings \in AppConfigs :
        AppStep("saveSettings",
                PomodoroTimer_saveSettings(AppWorld(app, appIntervals, appTimeouts),
                                           newSettings),
                appHist.stale)

\* one of the active interval schedules fires
AppTick ==
    /\ appIntervals # {}
    /\ AppStep("tick",
               PomodoroTimer_tick(AppWorld(app, appIntervals, appTimeouts)),
               appHist.stale)

\* the oldest pending auto-start timeout fires
AppAutoStart ==
    /\ appTimeouts > 0
    /\ AppStep("autoStart",
               PomodoroTimer_startTimer(AppWorld(app, appIntervals, appTimeouts - 1)),
               IF appHist.stale > 0 THEN appHist.stale - 1 ELSE 0)

AppNext ==
    \/ AppToggleTimer
    \/ AppResetTimer
    \/ AppSkipSession
    \/ AppSaveSettings
    \/ AppTick
    \/ AppAutoStart

----------------------------------------------------------------------------
(* Settings *)

Settings_defaultSettings ==
    [workDuration |-> 25,
     shortBreakDuration |-> 5,
     longBreakDuration |-> 15,
     sessionsUntilLongBreak |-> 4,
     autoStartBreaks |-> FALSE,
     autoStartPomodoros |-> FALSE,
     enableNotifications |-> TRUE,
     enableSounds |-> TRUE]

\* a JSON text is told by what JSON.parse makes of it: a SyntaxError
\* ("malformed"), null, or an object; NoItem is the null that
\* localStorage.getItem answers for a missing entry
NoItem == [kind |-> "none"]
Malformed == [kind |-> "malformed"]
JSONNull == [kind |-> "null"]

\* JSON.stringify of an object of numbers and booleans
JSON_stringify(object) == [kind |-> "object", value |-> object]

\* JSON.parse(text): threw tells whether it raised a SyntaxError
JSON_parse(text) ==
    IF text.kind = "object"
    THEN [threw |-> FALSE, isNull |-> FALSE, value |-> text.value]
    ELSE [threw |-> text.kind = "malformed", isNull |-> text.kind = "null", value |-> << >>]

\* parseInt(text) of the texts a number field is given here: the leading
\* integer of the text, NaN when it has none
parseInt(text) ==
    CASE text = "30" -> [isNaN |-> FALSE, number |-> 30]
      [] text = "61" -> [isNaN |-> FALSE, number |-> 61]
      [] text = "5" -> [isNaN |-> FALSE, number |-> 5]
      [] text = "15" -> [isNaN |-> FALSE, number |-> 15]
      [] text = "3" -> [isNaN |-> FALSE, number |-> 3]
      [] text = "1" -> [isNaN |-> FALSE, number |-> 1]
      [] text = "2.9" -> [isNaN |-> FALSE, number |-> 2]
      [] text = "0" -> [isNaN |-> FALSE, number |-> 0]
      [] OTHER -> [isNaN |-> TRUE, number |-> 0]

\* parseInt(element.value) || 0
Settings_getNumberValue(text) ==
    LET parsed == parseInt(text)
    IN  IF parsed.isNaN \/ parsed.number = 0 THEN 0 ELSE parsed.number

\* what the fields of the settings form may hold when save() reads them
SettingsForms ==
    [workDuration : {"", "30", "61"},
     shortBreakDuration : {"5"},
     longBreakDuration : {"15"},
     sessionsUntilLongBreak : {"3", "1", "2.9"},
     autoStartBreaks : BOOLEAN,
     autoStartPomodoros : {FALSE},
     enableNotifications : {TRUE},
     enableSounds : {TRUE}]

\* the JSON texts given to importSettings(): not JSON, null, an object with
\* one key only, objects with the four numbers in and out of range
SettingsImports ==
    {Malformed, JSONNull,
     JSON_stringify([workDuration |-> 50]),
     JSON_stringify([workDuration |-> 50, shortBreakDuration |-> 10,
                     longBreakDuration |-> 20, sessionsUntilLongBreak |-> 2]),
     JSON_stringify([workDuration |-> 50, shortBreakDuration |-> 31,
                     longBreakDuration |-> 20, sessionsUntilLongBreak |-> 2]),
     JSON_stringify([workDuration |-> 60, shortBreakDuration |-> 5,
                     longBreakDuration |-> 15, sessionsUntilLongBreak |-> 11,
                     autoStartBreaks |-> TRUE])}

\* the keys and values given to setSetting()
SettingsPairs ==
    {[key |-> "workDuration", value |-> 0],
     [key |-> "workDuration", value |-> 30],
     [key |-> "sessionsUntilLongBreak", value |-> 1],
     [key |-> "volume", value |-> 5]}

\* the Settings object together with what its methods act on outside it:
\* the localStorage entry and the record of what the call did
SettingsWorld(self, storage) ==
    [self |-> self, storage |-> storage, events |-> <<>>, ret |-> NoReturn]

\* settings[key] compared with a number: a missing key is undefined, and
\* every comparison of undefined is false, as is every one of 0 made here
SettingsNumber(settings, key) ==
    IF key \in DOMAIN settings THEN settings[key] ELSE 0

\* mutation: validateSettings() that forgets the cycle length
Settings_validateSettings_DurationsOnly(w, settings) ==
    LET isValid ==
            /\ SettingsNumber(settings, "workDuration") > 0
            /\ SettingsNumber(settings, "workDuration") <= 60
            /\ SettingsNumber(settings, "shortBreakDuration") > 0
            /\ SettingsNumber(settings, "shortBreakDuration") <= 30
            /\ SettingsNumber(settings, "longBreakDuration") > 0
            /\ SettingsNumber(settings, "longBreakDuration") <= 60
    IN  [w EXCEPT !.ret = isValid,
                  !.events = IF isValid THEN @ ELSE Append(@, "alert")]

Settings_validateSettings(w, settings) ==
    LET isValid ==
            /\ SettingsNumber(settings, "workDuration") > 0
            /\ SettingsNumber(settings, "workDuration") <= 60
            /\ SettingsNumber(settings, "shortBreakDuration") > 0
            /\ SettingsNumber(settings, "shortBreakDuration") <= 30
            /\ SettingsNumber(settings, "longBreakDuration") > 0
            /\ SettingsNumber(settings, "longBreakDuration") <= 60
            /\ SettingsNumber(settings, "sessionsUntilLongBreak") >= 2
            /\ SettingsNumber(settings, "sessionsUntilLongBreak") <= 10
    IN  [w EXCEPT !.ret = isValid,
                  !.events = IF isValid THEN @ ELSE Append(@, "alert")]

Settings_updateSettings(w, newSettings) ==
    [w EXCEPT !.self.settings = Merge(@, newSettings)]

\* localStorage.setItem is taken to accept the write
Settings_saveToStorage(w) ==
    [w EXCEPT !.storage = JSON_stringify(w.self.settings),
              !.events = Append(@, "setItem")]

Settings_close(w) == [w EXCEPT !.events = Append(@, "close")]

\* if (this.onSettingsChange) this.onSettingsChange(this.settings)
Settings_notify(w) ==
    IF w.self.onSettingsChange
    THEN [w EXCEPT !.events = Append(@, "onSettingsChange")]
    ELSE w

Settings_loadFromStorage(w) ==
    LET saved == w.storage
        parsed == JSON_parse(saved)
    IN  IF saved = NoItem
        THEN w
        ELSE IF parsed.threw \/ parsed.isNull
             THEN [w EXCEPT !.self.settings = Settings_defaultSettings]
             ELSE [w EXCEPT !.self.settings =
                       [key \in DOMAIN @ |->
                           IF /\ key \in DOMAIN Settings_defaultSettings
                              /\ key \in DOMAIN parsed.value
                           THEN parsed.value[key]
                           ELSE @[key]]]

\* new Settings() with `saved` in localStorage; onSettingsChange is null
SettingsConstructor(saved) ==
    Settings_loadFromStorage(
        SettingsWorld([settings |-> Settings_defaultSettings,
                       onSettingsChange |-> FALSE],
                      saved))

\* the object save() builds from the form
Settings_formSettings(form) ==
    [workDuration |-> Settings_getNumberValue(form.workDuration),
     shortBreakDuration |-> Settings_getNumberValue(form.shortBreakDuration),
     longBreakDuration |-> Settings_getNumberValue(form.longBreakDuration),
     sessionsUntilLongBreak |-> Settings_getNumberValue(form.sessionsUntilLongBreak),
     autoStartBreaks |-> form.autoStartBreaks,
     autoStartPomodoros |-> form.autoStartPomodoros,
     enableNotifications |-> form.enableNotifications,
     enableSounds |-> form.enableSounds]

Settings_save(w, form) ==
    LET newSettings == Settings_formSettings(form)
        validated == Settings_validateSettings(w, newSettings)
    IN  IF validated.ret
        THEN [Settings_notify(
                  Settings_close(
                      Settings_saveToStorage(
                          Settings_updateSettings(validated, newSettings))))
                EXCEPT !.ret = NoReturn]
        ELSE [validated EXCEPT !.ret = NoReturn]

Settings_importSettings(w, jsonString) ==
    LET parsed == JSON_parse(jsonString)
        validated == Settings_validateSettings(w, parsed.value)
    IN  IF parsed.threw \/ parsed.isNull
        THEN [w EXCEPT !.ret = FALSE]
        ELSE IF validated.ret
             THEN [Settings_notify(
                       Settings_saveToStorage(
                           Settings_updateSettings(validated, parsed.value)))
                     EXCEPT !.ret = TRUE]
             ELSE [validated EXCEPT !.ret = FALSE]

Settings_setSetting(w, key, value) ==
    IF key \in DOMAIN w.self.settings
    THEN Settings_saveToStorage([w EXCEPT !.self.settings[key] = value])
    ELSE w

Settings_resetToDefaults(w) ==
    Settings_notify(
        Settings_saveToStorage([w EXCEPT !.self.settings = Settings_defaultSettings]))

STFresh == [op |-> "new", argument |-> NoReturn, ret |-> NoReturn]

\* one call op(argument) with outcome w; a call that returns nothing has
\* ret = NoReturn, importSettings() has [returned |-> what it answered]
STCall(op, argument, w) ==
    /\ st' = w.self
    /\ stStorage' = w.storage
    /\ stEvents' = w.events
    /\ stHist' = [op |-> op,
                  argument |-> argument,
                  ret |-> IF op = "importSettings"
                          THEN [returned |-> w.ret]
                          ELSE NoReturn]
    /\ UNCHANGED <<smVars, tmVars, appVars>>

\* the owner of the object assigns its onSettingsChange
SetOnSettingsChange ==
    /\ ~st.onSettingsChange
    /\ STCall("onSettingsChange", NoReturn,
              [SettingsWorld(st, stStorage) EXCEPT !.self.onSettingsChange = TRUE])

\* the save button of the settings form
Save ==
    \E form \in SettingsForms :
        STCall("save", form, Settings_save(SettingsWorld(st, stStorage), form))

ImportSettings ==
    \E jsonString \in SettingsImports :
        STCall("importSettings", jsonString,
               Settings_importSettings(SettingsWorld(st, stStorage), jsonString))

SetSetting ==
    \E pair \in SettingsPairs :
        STCall("setSetting", pair,
               Settings_setSetting(SettingsWorld(st, stStorage), pair.key, pair.value))

SettingsResetToDefaults ==
    STCall("resetToDefaults", NoReturn,
           Settings_resetToDefaults(SettingsWorld(st, stStorage)))

LoadFromStorage ==
    STCall("loadFromStorage", NoReturn,
           Settings_loadFromStorage(SettingsWorld(st, stStorage)))

STNext ==
    \/ SetOnSettingsChange
    \/ Save
    \/ ImportSettings
    \/ SetSetting
    \/ SettingsResetToDefaults
    \/ LoadFromStorage

----------------------------------------------------------------------------
(* Specifications *)

\* the SessionManager alone, constructed with any of the settings objects
InitSM ==
    /\ \E settings \in SMConfigs : sm = SMConstructor(settings)
    /\ smRet = NoReturn
    /\ smHist = SMFresh
    /\ tm = TimerConstructor
    /\ tmIntervals = {}
    /\ tmEvents = <<>>
    /\ tmHist = TMFresh
    /\ app = PomodoroTimerInit(defaultSettings)
    /\ appIntervals = {}
    /\ appTimeouts = 0
    /\ appHist = AppFresh
    /\ st = SettingsConstructor(NoItem).self
    /\ stStorage = NoItem
    /\ stEvents = <<>>
    /\ stHist = STFresh

SpecSM == InitSM /\ [][SMNext]_vars

\* the SessionManager driven through its cycle only: initialize, advance,
\* skip, the two resets and configuration changes, with no direct write of the
\* session state (setCurrentSession, importState)
SMCycleNext ==
    \/ Initialize
    \/ ResetToDefaults
    \/ CompleteSession
    \/ SkipSession
    \/ ResetCounters
    \/ UpdateSettings

SpecSMCycle == InitSM /\ [][SMCycleNext]_vars

\* settings objects with values missing or zero (0 stands for both, as in
\* OrDefault), as a SessionManager built without validation may hold them
SMLooseConfigs ==
    [workDuration : {0, 1, 25},
     shortBreakDuration : {0, 5},
     longBreakDuration : {0, 15},
     sessionsUntilLongBreak : {0, 3},
     autoStartBreaks : {FALSE},
     autoStartPomodoros : {FALSE}]

\* the SessionManager constructed with any of the loose settings objects,
\* advanced and asked for durations
InitSMLoose ==
    /\ \E settings \in SMLooseConfigs : sm = SMConstructor(settings)
    /\ smRet = NoReturn
    /\ smHist = SMFresh
    /\ tm = TimerConstructor
    /\ tmIntervals = {}
    /\ tmEvents = <<>>
    /\ tmHist = TMFresh
    /\ app = PomodoroTimerInit(defaultSettings)
    /\ appIntervals = {}
    /\ appTimeouts = 0
    /\ appHist = AppFresh
    /\ st = SettingsConstructor(NoItem).self
    /\ stStorage = NoItem
    /\ stEvents = <<>>
    /\ stHist = STFresh

SMLooseNext ==
    \/ CompleteSession
    \/ SkipSession
    \/ GetSessionDuration

SpecSMLoose == InitSMLoose /\ [][SMLooseNext]_vars

\* the Timer alone, as constructed
InitTimer ==
    /\ sm = SMConstructor(defaultSettings)
    /\ smRet = NoReturn
    /\ smHist = SMFresh
    /\ tm = TimerConstructor
    /\ tmIntervals = {}
    /\ tmEvents = <<>>
    /\ tmHist = TMFresh
    /\ app = PomodoroTimerInit(defaultSettings)
    /\ appIntervals = {}
    /\ appTimeouts = 0
    /\ appHist = AppFresh
    /\ st = SettingsConstructor(NoItem).self
    /\ stStorage = NoItem
    /\ stEvents = <<>>
    /\ stHist = STFresh

SpecTimer == InitTimer /\ [][TMNext]_vars

\* the Timer with the host's scheduling: a schedule made by setInterval keeps
\* calling its callback for as long as it has not been cleared
SpecTimerFair == InitTimer /\ [][TMNext]_vars /\ WF_vars(Tick)

\* the PomodoroTimer alone, after new PomodoroTimer() and init() with one of
\* the settings objects saved in localStorage
InitApp ==
    /\ sm = SMConstructor(defaultSettings)
    /\ smRet = NoReturn
    /\ smHist = SMFresh
    /\ tm = TimerConstructor
    /\ tmIntervals = {}
    /\ tmEvents = <<>>
    /\ tmHist = TMFresh
    /\ \E saved \in AppConfigs : app = PomodoroTimerInit(saved)
    /\ appIntervals = {}
    /\ appTimeouts = 0
    /\ appHist = AppFresh
    /\ st = SettingsConstructor(NoItem).self
    /\ stStorage = NoItem
    /\ stEvents = <<>>
    /\ stHist = STFresh

SpecApp == InitApp /\ [][AppNext]_vars

\* a new Settings object, nothing in localStorage
InitSettings ==
    /\ sm = SMConstructor(defaultSettings)
    /\ smRet = NoReturn
    /\ smHist = SMFresh
    /\ tm = TimerConstructor
    /\ tmIntervals = {}
    /\ tmEvents = <<>>
    /\ tmHist = TMFresh
    /\ app = PomodoroTimerInit(defaultSettings)
    /\ appIntervals = {}
    /\ appTimeouts = 0
    /\ appHist = AppFresh
    /\ st = SettingsConstructor(NoItem).self
    /\ stStorage = NoItem
    /\ stEvents = <<>>
    /\ stHist = STFresh

SpecSettings == InitSettings /\ [][STNext]_vars

----------------------------------------------------------------------------
(* Claims about the SessionManager, checked under SpecSM *)

\* a step that is one call of completeSession() or skipSession()
SMAdvanceStep ==
    /\ smHist'.op \in {"completeSession", "skipSession"}
    /\ smVars' # smVars

\* C1: from a fresh controller with sessionsUntilLongBreak = n in 2..10 and no
\* reset or configuration change, the (2k-1)-th advance yields LongBreak when k
\* is a multiple of n and ShortBreak otherwise, with both counters equal to k,
\* and every even-numbered advance yields Work.
C1_CycleSequence ==
    LET n == sm.settings.sessionsUntilLongBreak
        a == smHist.advances
        k == (a + 1) \div 2
    IN  (smHist.fresh /\ a >= 1 /\ n \in 2..10) =>
            IF a % 2 = 1
            THEN /\ sm.currentSession = IF k % n = 0 THEN LONG_BREAK ELSE SHORT_BREAK
                 /\ sm.completedPomodoros = k
                 /\ sm.sessionCount = k
            ELSE sm.currentSession = WORK

\* C1 witness: n = 4, the 7th advance has just yielded LongBreak with both
\* counters at 4.
C1_Witness ==
    /\ smHist.fresh
    /\ sm.settings.sessionsUntilLongBreak = 4
    /\ smHist.advances = 7
    /\ sm.currentSession = LONG_BREAK
    /\ sm.sessionCount = 4
    /\ sm.completedPomodoros = 4

\* C2: under a valid configuration, an advance from Work increments
\* sessionCount and completedPomodoros by exactly 1 and moves to LongBreak when
\* the incremented sessionCount is a multiple of sessionsUntilLongBreak, to
\* ShortBreak otherwise.
C2_WorkAdvance ==
    [][(SMAdvanceStep /\ sm.currentSession = WORK /\ validateSettings(sm.settings)) =>
            /\ sm'.sessionCount = sm.sessionCount + 1
            /\ sm'.completedPomodoros = sm.completedPomodoros + 1
            /\ sm'.currentSession =
                    IF sm'.sessionCount % sm.settings.sessionsUntilLongBreak = 0
                    THEN LONG_BREAK
                    ELSE SHORT_BREAK
            /\ smRet'.currentSession = sm'.currentSession]_vars

\* C2 witness: an advance from Work has just yielded LongBreak under a valid
\* configuration with cycle length 3.
C2_Witness ==
    /\ smHist.op \in {"completeSession", "skipSession"}
    /\ validateSettings(sm.settings)
    /\ sm.settings.sessionsUntilLongBreak = 3
    /\ smRet.previousSession = WORK
    /\ sm.currentSession = LONG_BREAK
    /\ sm.sessionCount = 6

\* C3: an advance from ShortBreak or LongBreak yields Work and leaves
\* sessionCount and completedPomodoros unchanged.
C3_BreakAdvance ==
    [][(SMAdvanceStep /\ sm.currentSession \in {SHORT_BREAK, LONG_BREAK}) =>
            /\ sm'.currentSession = WORK
            /\ smRet'.currentSession = WORK
            /\ sm'.sessionCount = sm.sessionCount
            /\ sm'.completedPomodoros = sm.completedPomodoros]_vars

\* C3 witness: an advance from LongBreak has just yielded Work with the
\* counters still at the cycle boundary.
C3_Witness ==
    /\ smHist.op \in {"completeSession", "skipSession"}
    /\ smRet.previousSession = LONG_BREAK
    /\ sm.currentSession = WORK
    /\ sm.sessionCount = 4
    /\ sm.completedPomodoros = 4

----------------------------------------------------------------------------
(* Claims about the Timer, checked under SpecTimer *)

\* a step that is one firing of the interval callback
TMTickStep == tmHist'.op = "tick" /\ tmVars' # tmVars

\* C4: in every reachable state of the Timer, currentTime is never negative.
C4_NeverNegative == tm.currentTime >= 0

\* C5: reset(0) immediately followed by start() fires the completion signal
\* on the first tick, and currentTime is 0 when the tick observer and the
\* completion observer are invoked.
C5_ZeroCountdown ==
    [][(/\ tmHist.prevOp = "reset"
        /\ tmHist.op = "start"
        /\ tm.currentTime = 0
        /\ TMTickStep) =>
            /\ Completions(tmEvents') = 1
            /\ \A i \in DOMAIN tmEvents' : tmEvents'[i].currentTime = 0]_vars

\* C6: each time a running countdown reaches zero, the engine stops ticking
\* (no interval schedule is left, so no further tick fires), it is Idle
\* (isRunning and isPaused both false), and the completion observer has been
\* invoked exactly once for that countdown.
C6_CompletionStops ==
    /\ [](tmHist.completions <= 1 /\ (~tm.isRunning => ~ENABLED Tick))
    /\ [][(TMTickStep /\ tm'.currentTime <= 0) =>
            /\ tmIntervals' = {}
            /\ ~tm'.isRunning
            /\ ~tm'.isPaused
            /\ Completions(tmEvents') = 1
            /\ tmHist'.completions = 1]_vars

\* C6 witness: a countdown started from 2 has just reached zero and completed.
C6_Witness ==
    /\ tmHist.op = "tick"
    /\ tm.currentTime = 0
    /\ tmHist.completions = 1
    /\ Len(tmEvents) = 2
    /\ tmEvents[2].kind = "complete"
    /\ ~tm.isRunning
    /\ tmIntervals = {}

\* C7: start() while already Running changes nothing (run state, currentTime
\* and the single active interval schedule), and currentTime decreases by
\* exactly 1 per firing of that one schedule.
C7_StartIdempotent ==
    /\ [](Cardinality(tmIntervals) <= 1)
    /\ [][(tmHist'.op = "start" /\ tm.isRunning) =>
            /\ tm' = tm
            /\ tmIntervals' = tmIntervals
            /\ Cardinality(tmIntervals') = 1]_vars
    /\ [][TMTickStep => tm'.currentTime = tm.currentTime - 1]_vars

\* C7 witness: start() has been called twice in a row and the Timer runs on
\* one interval schedule.
C7_Witness ==
    /\ tmHist.op = "start"
    /\ tmHist.prevOp = "start"
    /\ tm.isRunning
    /\ tm.currentTime = 2
    /\ Cardinality(tmIntervals) = 1

\* C16: the shouldAutoStart an advance returns equals (new type is not Work
\* and autoStartBreaks) or (new type is Work and autoStartPomodoros), taken on
\* the type after the transition, for every combination of the two flags and
\* every session state.
C16_ShouldAutoStart ==
    [][SMAdvanceStep =>
            smRet'.shouldAutoStart =
                ((sm'.currentSession # WORK /\ sm.settings.autoStartBreaks)
                    \/ (sm'.currentSession = WORK /\ sm.settings.autoStartPomodoros))]_vars

\* C16 witness: with autoStartBreaks on and autoStartPomodoros off, an advance
\* from Work has returned shouldAutoStart = true for the break it moved to.
C16_Witness ==
    /\ smHist.op \in {"completeSession", "skipSession"}
    /\ sm.settings.autoStartBreaks
    /\ ~sm.settings.autoStartPomodoros
    /\ smRet.previousSession = WORK
    /\ sm.currentSession = LONG_BREAK
    /\ smRet.shouldAutoStart

\* the configured minutes of a session type
ConfiguredMinutes(settings, sessionType) ==
    CASE sessionType = WORK -> settings.workDuration
      [] sessionType = SHORT_BREAK -> settings.shortBreakDuration
      [] sessionType = LONG_BREAK -> settings.longBreakDuration

\* C18: the record an advance returns carries the type before, the type after,
\* the counters after, and duration = getCurrentSessionDuration() of the new
\* type, which under every valid configuration is the configured minutes of
\* that type times 60.
C18_TransitionRecord ==
    [][SMAdvanceStep =>
            /\ smRet'.previousSession = sm.currentSession
            /\ smRet'.currentSession = sm'.currentSession
            /\ smRet'.completedPomodoros = sm'.completedPomodoros
            /\ smRet'.sessionCount = sm'.sessionCount
            /\ smRet'.duration = getCurrentSessionDuration(sm')
            /\ validateSettings(sm.settings) =>
                    smRet'.duration =
                        ConfiguredMinutes(sm.settings, sm'.currentSession) * 60]_vars

\* C18 witness: under a valid configuration with a 30-minute long break, an
\* advance from Work has returned the record of a long break of 1800 seconds.
C18_Witness ==
    /\ smHist.op \in {"completeSession", "skipSession"}
    /\ validateSettings(sm.settings)
    /\ sm.settings.longBreakDuration = 30
    /\ smRet.previousSession = WORK
    /\ smRet.currentSession = LONG_BREAK
    /\ smRet.sessionCount = sm.sessionCount
    /\ smRet.duration = 1800

\* C20: getNextSessionType() never changes sessionCount, completedPomodoros or
\* currentSession, in any reachable state and however many times it is called.
C20_PeekIsPure ==
    [][(smHist'.op = "getNextSessionType" /\ smVars' # smVars) =>
            /\ sm'.sessionCount = sm.sessionCount
            /\ sm'.completedPomodoros = sm.completedPomodoros
            /\ sm'.currentSession = sm.currentSession
            /\ sm' = sm]_vars

\* C20 witness: getNextSessionType() has announced the long break from Work at
\* sessionCount 3 of 4, and the controller still is at Work with count 3.
C20_Witness ==
    /\ smHist.op = "getNextSessionType"
    /\ smRet.nextSessionType = LONG_BREAK
    /\ sm.currentSession = WORK
    /\ sm.sessionCount = 3
    /\ sm.completedPomodoros = 3
    /\ sm.settings.sessionsUntilLongBreak = 4

\* C21: in every reachable state getNextSessionType() returns the type the
\* next completeSession() moves to, and an advance that follows a
\* getNextSessionType() call moves to the type that call returned.
C21_PeekIsNextAdvance ==
    /\ [](getNextSessionType(sm).ret = completeSession(sm).ret.currentSession)
    /\ [][(smHist.op = "getNextSessionType" /\ SMAdvanceStep) =>
            /\ sm'.currentSession = smRet.nextSessionType
            /\ smRet'.currentSession = smRet.nextSessionType]_vars

\* C21 witness: at Work with sessionCount 5 of cycle length 3,
\* getNextSessionType() has returned LongBreak, the type the advance from here
\* moves to.
C21_Witness ==
    /\ smHist.op = "getNextSessionType"
    /\ sm.currentSession = WORK
    /\ sm.settings.sessionsUntilLongBreak = 3
    /\ sm.sessionCount = 5
    /\ smRet.nextSessionType = LONG_BREAK
    /\ completeSession(sm).self.currentSession = LONG_BREAK
    /\ completeSession(sm).self.sessionCount = 6

\* C22: in every reachable state, importState(exportState()) leaves
\* (currentSession, sessionCount, completedPomodoros) as they are, and
\* importing that snapshot into a newly constructed SessionManager gives it the
\* same three values.
C22_SnapshotRoundTrip ==
    LET snapshot == exportState(sm)
        again == importState(sm, snapshot)
    IN  /\ again.currentSession = sm.currentSession
        /\ again.sessionCount = sm.sessionCount
        /\ again.completedPomodoros = sm.completedPomodoros
        /\ \A settings \in SMConfigs :
               LET other == importState(SMConstructor(settings), snapshot)
               IN  /\ other.currentSession = sm.currentSession
                   /\ other.sessionCount = sm.sessionCount
                   /\ other.completedPomodoros = sm.completedPomodoros

\* C22 witness: a SessionManager at the long break with both counters at 2
\* has just come through importState(); none of the other snapshots holds
\* this triple, its own export does.
C22_Witness ==
    /\ smHist.op = "importState"
    /\ sm.currentSession = LONG_BREAK
    /\ sm.sessionCount = 2
    /\ sm.completedPomodoros = 2

\* a snapshot field that importState() finds: present, and for the session
\* type not the empty value that `||` replaces
Present(state, field) ==
    /\ field \in DOMAIN state
    /\ field = "currentSession" => state[field] # ""

\* C23: from any state, importState(state) sets each of the three fields to
\* the snapshot's value when the snapshot has it and to its default (work, 0,
\* 0) when it is missing, whatever the field held before, and leaves the
\* settings alone.
C23_ImportRestoresOrDefaults ==
    \A state \in Snapshots :
        LET after == importState(sm, state)
        IN  /\ after.currentSession =
                   IF Present(state, "currentSession") THEN state.currentSession ELSE WORK
            /\ after.sessionCount =
                   IF Present(state, "sessionCount") THEN state.sessionCount ELSE 0
            /\ after.completedPomodoros =
                   IF Present(state, "completedPomodoros")
                   THEN state.completedPomodoros
                   ELSE 0
            /\ after.settings = sm.settings

\* C23 witness: the snapshot { sessionCount: 4 } has just been imported: the
\* count is 4, the type is back to work and completedPomodoros to 0.
C23_Witness ==
    /\ smHist.op = "importState"
    /\ sm.currentSession = WORK
    /\ sm.sessionCount = 4
    /\ sm.completedPomodoros = 0

\* C24: after any importState() the current session is one of work,
\* shortBreak, longBreak: a snapshot with another session type yields work.
C24_ImportRecognizedType ==
    smHist.op = "importState" => sm.currentSession \in sessionTypes

\* C25: in every state the cycle operations reach, the current session is
\* longBreak only if sessionCount is a positive multiple of
\* sessionsUntilLongBreak.
C25_LongBreakOnlyAtMultiple ==
    LET n == sm.settings.sessionsUntilLongBreak
    IN  (sm.currentSession = LONG_BREAK /\ n \in 2..10) =>
            (sm.sessionCount > 0 /\ sm.sessionCount % n = 0)

\* C25 as amended: the cycle operations enter longBreak only by an advance
\* from work that makes sessionCount a positive multiple of
\* sessionsUntilLongBreak, and until a reset or a configuration change
\* longBreak goes with such a count; resetCounters() and updateSettings()
\* keep the session type, so after them it need not.
C25_LongBreakEnteredAtMultiple ==
    /\ [][(sm'.currentSession = LONG_BREAK /\ sm.currentSession # LONG_BREAK) =>
            /\ SMAdvanceStep
            /\ sm.currentSession = WORK
            /\ sm'.sessionCount = sm.sessionCount + 1
            /\ sm.settings.sessionsUntilLongBreak \in 2..10 =>
                   sm'.sessionCount % sm.settings.sessionsUntilLongBreak = 0]_vars
    /\ [](smHist.fresh => C25_LongBreakOnlyAtMultiple)
    /\ [][(C25_LongBreakOnlyAtMultiple /\ ~C25_LongBreakOnlyAtMultiple') =>
            smHist'.op \in {"resetCounters", "updateSettings"}]_vars

\* C25 witness: with a cycle length of 2 and nothing reset, the seventh
\* advance has just entered the long break at sessionCount 4.
C25_Witness ==
    /\ smHist.fresh
    /\ smHist.op \in {"completeSession", "skipSession"}
    /\ smHist.advances = 7
    /\ sm.settings.sessionsUntilLongBreak = 2
    /\ sm.currentSession = LONG_BREAK
    /\ sm.sessionCount = 4

\* C26: in every state reached from initialization by advance, skip,
\* resetCounters and resetToDefaults (and configuration changes), sessionCount
\* = completedPomodoros, and both are >= 0.
C26_CountersMoveTogether ==
    /\ sm.sessionCount = sm.completedPomodoros
    /\ sm.sessionCount >= 0
    /\ sm.completedPomodoros >= 0

\* C26 witness: after a reset of the counters, three work sessions have been
\* completed or skipped and both counters are at 3.
C26_Witness ==
    /\ ~smHist.fresh
    /\ smHist.op = "skipSession"
    /\ sm.currentSession = SHORT_BREAK
    /\ sm.sessionCount = 3
    /\ sm.completedPomodoros = 3

\* a step that is one call of the SessionManager method op
SMCallStep(op) == smHist'.op = op /\ smVars' # smVars

\* C27: after initialize(settings) or resetToDefaults(), from any state, the
\* current session is work and both counters are 0; initialize() replaces the
\* settings by the object it is given, resetToDefaults() leaves them.
C27_InitializeAndReset ==
    /\ [][(SMCallStep("initialize") \/ SMCallStep("resetToDefaults")) =>
            /\ sm'.currentSession = WORK
            /\ sm'.sessionCount = 0
            /\ sm'.completedPomodoros = 0]_vars
    /\ [][SMCallStep("initialize") => sm'.settings \in SMConfigs]_vars
    /\ [][SMCallStep("resetToDefaults") => sm'.settings = sm.settings]_vars

\* C27 witness: resetToDefaults() has just returned a SessionManager to work
\* and 0/0 with the settings an earlier updateSettings() gave it.
C27_Witness ==
    /\ smHist.op = "resetToDefaults"
    /\ sm.currentSession = WORK
    /\ sm.sessionCount = 0
    /\ sm.completedPomodoros = 0
    /\ sm.settings.workDuration = 1
    /\ sm.settings.longBreakDuration = 30

\* C28: resetCounters() sets sessionCount and completedPomodoros to 0 and
\* leaves the current session and the settings unchanged, in every reachable
\* state.
C28_ResetCounters ==
    [][SMCallStep("resetCounters") =>
            /\ sm'.sessionCount = 0
            /\ sm'.completedPomodoros = 0
            /\ sm'.currentSession = sm.currentSession
            /\ sm'.settings = sm.settings]_vars

\* C28 witness: resetCounters() has just been called during a long break,
\* which still is the current session.
C28_Witness ==
    /\ smHist.op = "resetCounters"
    /\ sm.currentSession = LONG_BREAK
    /\ sm.sessionCount = 0
    /\ sm.completedPomodoros = 0

\* C29: updateSettings(newSettings) changes the settings only: the session
\* type and both counters stay, every key of newSettings takes its value, every
\* other key keeps its own, and the next getCurrentSessionDuration() and
\* completeSession() work with the merged values.
C29_UpdateSettings ==
    [][SMCallStep("updateSettings") =>
            /\ sm'.currentSession = sm.currentSession
            /\ sm'.sessionCount = sm.sessionCount
            /\ sm'.completedPomodoros = sm.completedPomodoros
            /\ DOMAIN sm'.settings = DOMAIN sm.settings
            /\ LET newSettings == smHist'.newSettings
               IN  /\ \A k \in DOMAIN sm.settings :
                          sm'.settings[k] = IF k \in DOMAIN newSettings
                                            THEN newSettings[k]
                                            ELSE sm.settings[k]
                   /\ ("workDuration" \in DOMAIN newSettings /\ sm.currentSession = WORK) =>
                          getCurrentSessionDuration(sm') = newSettings.workDuration * 60
                   /\ ("sessionsUntilLongBreak" \in DOMAIN newSettings
                            /\ sm.currentSession = WORK) =>
                          completeSession(sm').self.currentSession =
                              IF (sm.sessionCount + 1) % newSettings.sessionsUntilLongBreak = 0
                              THEN LONG_BREAK
                              ELSE SHORT_BREAK]_vars

\* C29 witness: updateSettings({ workDuration: 1, longBreakDuration: 30 }) has
\* just been called at work with sessionCount 1: the cycle length 3 and the
\* session state are as before, the work session now lasts 60 seconds.
C29_Witness ==
    /\ smHist.op = "updateSettings"
    /\ sm.settings.workDuration = 1
    /\ sm.settings.longBreakDuration = 30
    /\ sm.settings.sessionsUntilLongBreak = 3
    /\ sm.currentSession = WORK
    /\ sm.sessionCount = 1
    /\ sm.completedPomodoros = 1
    /\ getCurrentSessionDuration(sm) = 60

\* C30: in every reachable state with a valid cycle length n,
\* getStatistics() reports sessionsUntilLongBreak = n - (sessionCount mod n),
\* or 0 when that is n, currentCycle = floor(sessionCount / n) + 1 and
\* currentSessionInCycle = (sessionCount mod n) + 1, and changes no state; at
\* sessionCount 2 with n = 4 these are 2, 1 and 3.
C30_Statistics ==
    [][SMCallStep("getStatistics") =>
            LET n == sm.settings.sessionsUntilLongBreak
                count == sm.sessionCount
                statistics == smRet'.statistics
            IN  /\ sm' = sm
                /\ statistics.totalSessions = count
                /\ statistics.completedPomodoros = sm.completedPomodoros
                /\ n \in 2..10 =>
                       /\ statistics.sessionsUntilLongBreak =
                              IF n - (count % n) = n THEN 0 ELSE n - (count % n)
                       /\ statistics.currentCycle = (count \div n) + 1
                       /\ statistics.currentSessionInCycle = (count % n) + 1
                /\ (n = 4 /\ count = 2) =>
                       /\ statistics.sessionsUntilLongBreak = 2
                       /\ statistics.currentCycle = 1
                       /\ statistics.currentSessionInCycle = 3]_vars

\* C30 witness: two work sessions completed since initialisation with a cycle
\* length of 4, and getStatistics() has reported 2, 1 and 3.
C30_Witness ==
    /\ smHist.op = "getStatistics"
    /\ smHist.fresh
    /\ smHist.advances = 3
    /\ sm.settings.sessionsUntilLongBreak = 4
    /\ sm.sessionCount = 2
    /\ smRet.statistics.sessionsUntilLongBreak = 2
    /\ smRet.statistics.currentCycle = 1
    /\ smRet.statistics.currentSessionInCycle = 3

\* C39: setCurrentSession(sessionType) with a value that is none of work,
\* shortBreak, longBreak returns false, changes nothing and calls no observer;
\* with one of the three it returns true and changes currentSession only, to
\* that value.
C39_SetCurrentSession ==
    [][SMCallStep("setCurrentSession") =>
            LET sessionType == smHist'.sessionType
            IN  /\ sm'.sessionCount = sm.sessionCount
                /\ sm'.completedPomodoros = sm.completedPomodoros
                /\ sm'.settings = sm.settings
                /\ IF sessionType \in {WORK, SHORT_BREAK, LONG_BREAK}
                   THEN /\ smRet'.returned
                        /\ sm'.currentSession = sessionType
                   ELSE /\ ~smRet'.returned
                        /\ ~smRet'.onSessionChange
                        /\ sm'.currentSession = sm.currentSession]_vars

\* C39 witness: setCurrentSession('nap') has just returned false during a long
\* break reached by three advances, and the long break still is the current
\* session.
C39_Witness ==
    /\ smHist.op = "setCurrentSession"
    /\ smHist.sessionType = "nap"
    /\ smRet.returned = FALSE
    /\ smRet.onSessionChange = FALSE
    /\ sm.currentSession = LONG_BREAK
    /\ sm.sessionCount = 2
    /\ sm.completedPomodoros = 2

\* what a configured value counts as in getSessionDuration() and completeSession(): the
\* value itself, or the default when it is missing or 0
ConfiguredOr(configured, default) == IF configured = 0 THEN default ELSE configured

\* C40: a missing or 0 workDuration / shortBreakDuration / longBreakDuration
\* counts as 25 / 5 / 15 minutes, an unrecognized session type gets the work
\* duration, a missing or 0 sessionsUntilLongBreak counts as 4, and so the
\* current session's duration always is a positive multiple of 60.
C40_DefaultsForMissing ==
    /\ [](getCurrentSessionDuration(sm) > 0 /\ getCurrentSessionDuration(sm) % 60 = 0)
    /\ [][SMCallStep("getSessionDuration") =>
            smRet'.duration =
                CASE smHist'.sessionType = SHORT_BREAK ->
                         ConfiguredOr(sm.settings.shortBreakDuration, 5) * 60
                  [] smHist'.sessionType = LONG_BREAK ->
                         ConfiguredOr(sm.settings.longBreakDuration, 15) * 60
                  [] OTHER -> ConfiguredOr(sm.settings.workDuration, 25) * 60]_vars
    /\ [][(SMAdvanceStep /\ sm.currentSession = WORK) =>
            sm'.currentSession =
                IF sm'.sessionCount % ConfiguredOr(sm.settings.sessionsUntilLongBreak, 4) = 0
                THEN LONG_BREAK
                ELSE SHORT_BREAK]_vars

\* C40 witness: with no workDuration configured, getSessionDuration('nap')
\* has returned 1500 seconds during the long break that the fourth work
\* completion led to under a missing sessionsUntilLongBreak.
C40_Witness ==
    /\ smHist.op = "getSessionDuration"
    /\ smHist.sessionType = "nap"
    /\ sm.settings.workDuration = 0
    /\ sm.settings.sessionsUntilLongBreak = 0
    /\ sm.currentSession = LONG_BREAK
    /\ sm.sessionCount = 4
    /\ smRet.duration = 1500

\* the number of work completions, among the next `events` calls of
\* completeSession() from self, up to and including the first one that
\* yields the long break; 0 when none of them does
RECURSIVE WorkCompletionsToLongBreak(_, _)
WorkCompletionsToLongBreak(self, events) ==
    IF events = 0
    THEN 0
    ELSE LET wasWork == self.currentSession = WORK
             done == completeSession(self).self
             rest == WorkCompletionsToLongBreak(done, events - 1)
         IN  IF wasWork /\ done.currentSession = LONG_BREAK
             THEN 1
             ELSE IF rest = 0
                  THEN 0
                  ELSE IF wasWork THEN rest + 1 ELSE rest

\* the cycle length completeSession() and getStatistics() work with
CycleLength(self) == OrDefault(self.settings.sessionsUntilLongBreak, 4)

\* C34: in every reachable state, when getStatistics() reports
\* sessionsUntilLongBreak = k >= 1, the k-th work completion from there is the
\* first that yields the long break, and when it reports 0 that is the n-th,
\* n being the cycle length; step by step: a work completion yields the long
\* break exactly when the figure before it was 1 (or 0 with n = 1), and
\* otherwise lowers the figure by one (from 0: to n - 1); the completion of a
\* break leaves the figure alone.
C34_StatisticsPredictCycle ==
    /\ [](LET k == getStatistics(sm).ret.sessionsUntilLongBreak
              n == CycleLength(sm)
          IN  WorkCompletionsToLongBreak(sm, 2 * n + 1) = (IF k >= 1 THEN k ELSE n))
    /\ [][SMAdvanceStep =>
            LET k == getStatistics(sm).ret.sessionsUntilLongBreak
                after == getStatistics(sm').ret.sessionsUntilLongBreak
                n == CycleLength(sm)
            IN  IF sm.currentSession = WORK
                THEN /\ (sm'.currentSession = LONG_BREAK) <=> (k = 1 \/ (k = 0 /\ n = 1))
                     /\ sm'.currentSession = LONG_BREAK => after = 0
                     /\ sm'.currentSession # LONG_BREAK =>
                            after = (IF k = 0 THEN n - 1 ELSE k - 1)
                ELSE after = k /\ sm'.currentSession = WORK]_vars

\* C34 witness: with a cycle length of 3, one pomodoro was done when the
\* figure was 2, and the second work completion from there has just yielded
\* the long break; the figure is 0 and the next long break 3 completions away.
C34_Witness ==
    /\ smHist.op = "completeSession"
    /\ smHist.advances = 5
    /\ sm.settings.sessionsUntilLongBreak = 3
    /\ sm.currentSession = LONG_BREAK
    /\ sm.sessionCount = 3
    /\ getStatistics(sm).ret.sessionsUntilLongBreak = 0
    /\ WorkCompletionsToLongBreak(sm, 7) = 3
    /\ WorkCompletionsToLongBreak([sm EXCEPT !.currentSession = WORK, !.sessionCount = 1], 7) = 2
    /\ getStatistics([sm EXCEPT !.sessionCount = 1]).ret.sessionsUntilLongBreak = 2

\* a step that is one call of the Timer method op
TMCallStep(op) == tmHist'.op = op /\ tmVars' # tmVars

\* C11: setDuration(seconds) while Running is a silent no-op (currentTime, run
\* state and the interval schedule unchanged, no observer told); when not
\* Running it sets currentTime = seconds and leaves the run state alone.
C11_SetDuration ==
    [][TMCallStep("setDuration") =>
            /\ tm'.isRunning = tm.isRunning
            /\ tm'.isPaused = tm.isPaused
            /\ tm'.timer = tm.timer
            /\ tmIntervals' = tmIntervals
            /\ tmEvents' = <<>>
            /\ tm'.currentTime =
                    IF tm.isRunning THEN tm.currentTime ELSE tmHist'.seconds]_vars

\* C11 witness: setDuration(3) has just been ignored by a Timer that runs at 1.
C11_Witness ==
    /\ tmHist.op = "setDuration"
    /\ tmHist.seconds = 3
    /\ tm.isRunning
    /\ tm.currentTime = 1
    /\ tmIntervals # {}

\* C12: pause() when not Running is a no-op (Idle stays Idle, Paused stays
\* Paused); when Running it halts ticking and moves to Paused with currentTime
\* preserved, and a start() from Paused resumes from exactly that value.
C12_Pause ==
    /\ [][TMCallStep("pause") =>
            /\ tm'.currentTime = tm.currentTime
            /\ tmEvents' = <<>>
            /\ IF tm.isRunning
               THEN ~tm'.isRunning /\ tm'.isPaused /\ tmIntervals' = {}
               ELSE tm' = tm /\ tmIntervals' = tmIntervals]_vars
    /\ [][(TMCallStep("start") /\ tm.isPaused) =>
            /\ tm'.isRunning
            /\ ~tm'.isPaused
            /\ tm'.currentTime = tm.currentTime
            /\ Cardinality(tmIntervals') = 1]_vars

\* C12 witness: a countdown paused at 2 has just been resumed by start(),
\* still at 2.
C12_Witness ==
    /\ tmHist.prevOp = "pause"
    /\ tmHist.op = "start"
    /\ tm.isRunning
    /\ tm.currentTime = 2
    /\ tmHist.completions = 0

\* C13: reset(seconds) from Idle, Running or Paused stops ticking, sets
\* currentTime = seconds and leaves the Timer Idle, without invoking the
\* completion observer.
C13_Reset ==
    [][TMCallStep("reset") =>
            /\ tmIntervals' = {}
            /\ tm'.currentTime = tmHist'.seconds
            /\ ~tm'.isRunning
            /\ ~tm'.isPaused
            /\ tmEvents' = <<>>
            /\ tmHist'.completions = tmHist.completions]_vars

\* C13 witness: reset(3) has just stopped a running countdown.
C13_Witness ==
    /\ tmHist.prevOp = "tick"
    /\ tmHist.op = "reset"
    /\ tmHist.seconds = 3
    /\ tm.currentTime = 3
    /\ ~tm.isRunning
    /\ tmIntervals = {}

\* C14: stop() from any run state halts ticking and leaves the Timer Idle with
\* currentTime exactly as it was; a second stop() changes nothing.
C14_Stop ==
    /\ [][TMCallStep("stop") =>
            /\ tmIntervals' = {}
            /\ ~tm'.isRunning
            /\ ~tm'.isPaused
            /\ tm'.currentTime = tm.currentTime
            /\ tmEvents' = <<>>]_vars
    /\ [][(TMCallStep("stop") /\ tmHist.op = "stop") =>
            tm' = tm /\ tmIntervals' = tmIntervals]_vars

\* C14 witness: stop() has been called twice on a countdown that was running
\* at 2.
C14_Witness ==
    /\ tmHist.prevOp = "stop"
    /\ tmHist.op = "stop"
    /\ tm.currentTime = 2
    /\ tm.timer # 0
    /\ ~tm.isRunning

\* C15: toggle() has exactly the effect of pause() when the Timer is Running
\* (it ends Paused, no schedule) and exactly the effect of start() otherwise
\* (it ends Running on one schedule).
C15_Toggle ==
    [][TMCallStep("toggle") =>
            LET w == TimerWorld(tm, tmIntervals)
                same == IF tm.isRunning THEN Timer_pause(w) ELSE Timer_start(w)
            IN  /\ tm' = same.self
                /\ tmIntervals' = same.intervals
                /\ tmEvents' = same.events
                /\ tm'.isRunning = ~tm.isRunning
                /\ tm'.isPaused = tm.isRunning
                /\ tm'.currentTime = tm.currentTime
                /\ Cardinality(tmIntervals') = IF tm.isRunning THEN 0 ELSE 1]_vars

\* C15 witness: toggle() has just paused a countdown that toggle() had
\* started.
C15_Witness ==
    /\ tmHist.prevOp = "toggle"
    /\ tmHist.op = "toggle"
    /\ tm.isPaused
    /\ ~tm.isRunning
    /\ tm.currentTime = 2

\* C37: isRunning and isPaused are never both true, and isPaused is true only
\* after a pause() made while Running (directly or through toggle()) with no
\* run-state change since: stop(), reset() and completion always clear it, and
\* so does start().
C37_RunningPausedExclusive ==
    /\ [](~(tm.isRunning /\ tm.isPaused))
    /\ [][(tm'.isPaused /\ ~tm.isPaused) =>
            (tmHist'.op \in {"pause", "toggle"} /\ tm.isRunning)]_vars
    /\ [][(TMCallStep("stop") \/ TMCallStep("reset") \/ TMCallStep("start")
                \/ (TMTickStep /\ Completions(tmEvents') > 0)) =>
            ~tm'.isPaused]_vars
    /\ [][(tm.isPaused /\ tm'.isPaused) =>
            (tm'.isRunning = tm.isRunning /\ tmIntervals' = tmIntervals)]_vars

\* C37 witness: pause() has just halted a countdown that had ticked down to 1.
C37_Witness ==
    /\ tmHist.prevOp = "tick"
    /\ tmHist.op = "pause"
    /\ tm.isPaused
    /\ ~tm.isRunning
    /\ tm.currentTime = 1
    /\ tmIntervals = {}

\* C35: every tick calls onTick with the value already decremented; the tick
\* that ends the countdown calls onTick first and onComplete after it, and
\* onComplete runs with the Timer already idle and its schedule cleared, so
\* that a start() made from there runs one schedule and no more.
C35_ObserverOrder ==
    [][TMTickStep =>
            /\ Len(tmEvents') \in {1, 2}
            /\ tmEvents'[1].kind = "tick"
            /\ tmEvents'[1].currentTime = tm.currentTime - 1
            /\ tmEvents'[1].isRunning
            /\ Len(tmEvents') = 2 =>
                   LET restarted == Timer_start(TimerWorld(tm', tmEvents'[2].intervals))
                   IN  /\ tmEvents'[2].kind = "complete"
                       /\ ~tmEvents'[2].isRunning
                       /\ ~tmEvents'[2].isPaused
                       /\ tmEvents'[2].intervals = {}
                       /\ tmEvents'[2].currentTime = tm.currentTime - 1
                       /\ restarted.self.isRunning
                       /\ Cardinality(restarted.intervals) = 1]_vars

\* C35 witness: the tick from 1 has called onTick(0) while running and then
\* onComplete with the Timer idle and no schedule left.
C35_Witness ==
    /\ tmHist.op = "tick"
    /\ tmHist.prevOp = "tick"
    /\ Len(tmEvents) = 2
    /\ tmEvents[1].kind = "tick"
    /\ tmEvents[1].currentTime = 0
    /\ tmEvents[1].isRunning
    /\ tmEvents[1].intervals # {}
    /\ tmEvents[2].kind = "complete"
    /\ ~tmEvents[2].isRunning
    /\ tmEvents[2].intervals = {}

\* a call that ends or changes the countdown in progress
TMInterrupted == tmHist.op \in {"pause", "reset", "stop", "toggle", "setDuration"}

\* C36: a countdown running at n >= 1 that no other operation interrupts
\* reaches its completion: each tick tells onTick the value one below the
\* one before, onComplete is invoked at the tick that tells 0 and at no tick
\* before it, so after exactly n ticks with the values n-1, ..., 0; pause()
\* and the start() after it leave the value alone, so the countdown resumes
\* with the next value, none lost and none repeated.
C36_CountdownCompletes ==
    /\ \A n \in 1..MaxSeconds :
           (tm.isRunning /\ tm.currentTime = n /\ ~TMInterrupted)
               ~> \/ TMInterrupted
                  \/ /\ tmHist.op = "tick"
                     /\ tmEvents[1].kind = "tick"
                     /\ tmEvents[1].currentTime = n - 1
                     /\ tm.currentTime = n - 1
                     /\ (n = 1) <=> (Completions(tmEvents) = 1)
                     /\ (n > 1) => tm.isRunning
    /\ [][(TMTickStep /\ tm.currentTime >= 1) =>
            /\ tmEvents'[1].currentTime = tm.currentTime - 1
            /\ tm'.currentTime = tm.currentTime - 1
            /\ Completions(tmEvents') = (IF tm.currentTime = 1 THEN 1 ELSE 0)
            /\ tm.currentTime > 1 => (tm'.isRunning /\ tmIntervals' = tmIntervals)]_vars
    /\ [][(TMCallStep("pause") \/ (TMCallStep("start") /\ tm.isPaused)) =>
            /\ tm'.currentTime = tm.currentTime
            /\ tmEvents' = <<>>]_vars

\* C36 witness: a countdown resumed by start() at 1 has told onTick 0 at its
\* next tick and completed.
C36_Witness ==
    /\ tmHist.op = "tick"
    /\ tmHist.prevOp = "start"
    /\ tmEvents[1].currentTime = 0
    /\ Completions(tmEvents) = 1
    /\ tmHist.completions = 1
    /\ ~tm.isRunning

----------------------------------------------------------------------------
(* Claims about the PomodoroTimer, checked under SpecApp *)

\* C8: under any interleaving of user actions, tick callbacks and deferred
\* auto-start callbacks, at most one tick interval is ever active, and an
\* interval is active only while isRunning is true.
C8_SingleCountdown ==
    /\ Cardinality(appIntervals) <= 1
    /\ (appIntervals # {} => app.isRunning)

\* C9: a pending auto-start that the user's toggle, reset or skip has
\* overtaken never fires: no timeout that fires (and so starts the countdown)
\* is one that was pending when the user intervened.
C9_StaleAutoStartCancelled ==
    [][appTimeouts' < appTimeouts => appHist.stale = 0]_vars

\* C10: whenever a session transition changes currentSession (and the
\* counters), the tick scheduler is disabled: the countdown is not running and
\* no interval schedule is active, so no tick can fire until the next start.
C10_TransitionWithTickerOff ==
    [][app'.currentSession # app.currentSession =>
            /\ ~app'.isRunning
            /\ appIntervals' = {}]_vars

\* C17: a session transition does not start the next countdown at once; when
\* the auto-start flag of the new type is off the countdown stays not running
\* until the user starts it; when it is on a start is pending, and with no
\* user action in between it fires on a countdown that then is Running from
\* the full duration of the new session.
C17_DeferredAutoStart ==
    /\ [][app'.currentSession # app.currentSession => ~app'.isRunning]_vars
    /\ [][(appHist.deferred = "off" /\ ~app.isRunning /\ app'.isRunning) =>
            appHist'.op = "toggleTimer"]_vars
    /\ [](appHist.deferred = "on" => appTimeouts > 0)
    /\ [][(appHist.deferred = "on" /\ appHist'.op = "autoStart") =>
            /\ app'.isRunning
            /\ app'.currentSession = app.currentSession
            /\ app'.currentTime =
                   PomodoroTimer_getSessionDuration(app', app'.currentSession)]_vars

SessionManagerOf(self) ==
    [settings |-> self.settings,
     currentSession |-> self.currentSession,
     sessionCount |-> self.sessionCount,
     completedPomodoros |-> self.completedPomodoros]

\* a step in which the PomodoroTimer's completeSession() ran: the skip
\* handler, or the tick that brought the countdown to its end
AppCompleteStep ==
    /\ appHist'.op \in {"skipSession", "tick"}
    /\ app'.currentSession # app.currentSession

\* C33: with a valid configuration, at every completion or skip the
\* PomodoroTimer's completeSession() leaves the session type, sessionCount,
\* completedPomodoros, duration of the next session and auto-start decision
\* that the SessionManager's completeSession() gives from the same settings,
\* type and counters; both start at work, 0, 0, so they agree after every
\* sequence of such events.
C33_ImplementationsAgree ==
    /\ [](validateSettings(app.settings) /\ appHist.op = "new" =>
            SessionManagerOf(app) = SMConstructor(app.settings))
    /\ [][(AppCompleteStep /\ validateSettings(app.settings)) =>
            LET done == completeSession(SessionManagerOf(app))
            IN  /\ SessionManagerOf(app') = done.self
                /\ app'.currentSession = done.ret.currentSession
                /\ app'.sessionCount = done.ret.sessionCount
                /\ app'.completedPomodoros = done.ret.completedPomodoros
                /\ app'.currentTime = done.ret.duration
                /\ (appTimeouts' = appTimeouts + 1) <=> done.ret.shouldAutoStart
                /\ (appTimeouts' = appTimeouts) <=> ~done.ret.shouldAutoStart]_vars

\* C33 witness: the tick that ended the second pomodoro has moved the
\* PomodoroTimer to the long break of 2 minutes and scheduled its start.
C33_Witness ==
    /\ appHist.op = "tick"
    /\ validateSettings(app.settings)
    /\ app.currentSession = LONG_BREAK
    /\ app.sessionCount = 2
    /\ app.completedPomodoros = 2
    /\ app.currentTime = 120
    /\ appHist.deferred = "on"
    /\ completeSession(SMConstructor(app.settings)).self.currentSession = SHORT_BREAK


----------------------------------------------------------------------------
(* Claims about the Settings, checked under SpecSettings *)

\* a step that is one call of the Settings method op
STCallStep(op) == stHist'.op = op /\ stVars' # stVars

\* the allowed ranges: work 1-60, short break 1-30, long break 1-60,
\* sessions until long break 2-10
SettingsAllowed(settings) ==
    /\ SettingsNumber(settings, "workDuration") \in 1..60
    /\ SettingsNumber(settings, "shortBreakDuration") \in 1..30
    /\ SettingsNumber(settings, "longBreakDuration") \in 1..60
    /\ SettingsNumber(settings, "sessionsUntilLongBreak") \in 2..10

\* the number of times a call did `what`
SettingsDid(events, what) ==
    Cardinality({i \in DOMAIN events : events[i] = what})

\* what a call given newSettings leaves: all or nothing
SettingsAllOrNothing(newSettings) ==
    IF SettingsAllowed(newSettings)
    THEN /\ st'.settings = Merge(st.settings, newSettings)
         /\ st'.onSettingsChange = st.onSettingsChange
         /\ stStorage' = JSON_stringify(st'.settings)
         /\ SettingsDid(stEvents', "setItem") = 1
         /\ SettingsDid(stEvents', "alert") = 0
         /\ SettingsDid(stEvents', "onSettingsChange") =
                (IF st.onSettingsChange THEN 1 ELSE 0)
    ELSE /\ st' = st
         /\ stStorage' = stStorage
         /\ SettingsDid(stEvents', "setItem") = 0
         /\ SettingsDid(stEvents', "onSettingsChange") = 0

\* C31: the settings the Settings object holds are within the allowed ranges
\* (work 1-60, short break 1-30, long break 1-60, sessions until long break
\* 2-10) after any sequence of save, importSettings, setSetting,
\* resetToDefaults and loadFromStorage from the defaults.
C31_SettingsValid == SettingsAllowed(st.settings)

\* C32: save() and importSettings() given a value outside the allowed ranges
\* change neither the settings nor the localStorage entry and do not call
\* onSettingsChange; given values all within the ranges they merge them into
\* the settings, write the settings to localStorage once and call
\* onSettingsChange, when one is set, exactly once; importSettings() answers
\* true in the second case only.
C32_AllOrNothing ==
    /\ [][STCallStep("save") =>
            SettingsAllOrNothing(Settings_formSettings(stHist'.argument))]_vars
    /\ [][STCallStep("importSettings") =>
            LET jsonString == stHist'.argument
            IN  IF jsonString.kind = "object"
                THEN /\ SettingsAllOrNothing(jsonString.value)
                     /\ stHist'.ret.returned = SettingsAllowed(jsonString.value)
                ELSE /\ st' = st
                     /\ stStorage' = stStorage
                     /\ stEvents' = <<>>
                     /\ stHist'.ret.returned = FALSE]_vars

\* C32 witness: with onSettingsChange set, importSettings() of 50/10/20/2 has
\* answered true, written the merged settings to localStorage and called
\* onSettingsChange once; a save() of the same object with the work field
\* emptied would be turned down.
C32_Witness ==
    /\ stHist.op = "importSettings"
    /\ stHist.ret.returned
    /\ st.onSettingsChange
    /\ st.settings.workDuration = 50
    /\ st.settings.sessionsUntilLongBreak = 2
    /\ st.settings.enableSounds
    /\ stStorage = JSON_stringify(st.settings)
    /\ stEvents = <<"setItem", "onSettingsChange">>
    /\ ~SettingsAllowed([st.settings EXCEPT !.workDuration = Settings_getNumberValue("")])

====
